---- MODULE Spec2Model ----
(***************************************************************************)
(* A model of the temporal reasoning of the PWKM task toolkit:             *)
(*   scripts/date_utils.py    nth weekday, next nth weekday, recurrence    *)
(*                            pattern parsing, next_recurring              *)
(*   scripts/task_manager.py  embedded pattern extraction and              *)
(*                            calculate_next_due_date                      *)
(*   scripts/gcal_query.py    classify_event                               *)
(*   scripts/session_timer.py audit-check and audit-done                   *)
(*   scripts/task_manager.py  the status and upcoming reports              *)
(* Every command line invocation is one run: the arguments are fixed when  *)
(* the process starts (Init) and the command's handler computes the        *)
(* result (one action per command).  The audit commands read the wall      *)
(* clock and read and write the audit state file, the reports read the     *)
(* clock and the task CSV file: clock and files are variables.  The        *)
(* session timer keeps its own state file; task completion rewrites the    *)
(* CSV file; two invocations may run at the same time.                     *)
(***************************************************************************)
EXTENDS Integers, Sequences, FiniteSets, TLC

VARIABLES cmd, arg, res, done, clock, audit_file, csv_file, timer_file, procs,
          log

vars ==
  <<cmd, arg, res, done, clock, audit_file, csv_file, timer_file, procs, log>>

\* the session timer state file, the invocations that run concurrently and
\* the outputs printed so far
rest == <<timer_file, procs, log>>

(***************************************************************************)
(* Bounds of the model.                                                    *)
(***************************************************************************)
\* first calendar year of the dates drawn as inputs
FirstYear == 2026
\* number of consecutive calendar years drawn (2028 is a leap year)
NumYears == 3
\* largest occurrence number n handed to nth-weekday on the command line
MaxN == 54

Years == FirstYear..(FirstYear + NumYears - 1)

(***************************************************************************)
(* datetime: the proleptic Gregorian calendar of Python's datetime, as     *)
(* the scripts use it (datetime(y, m, d), .weekday(), + timedelta).        *)
(***************************************************************************)
IsLeap(y) == (y % 4 = 0) /\ ((y % 100 # 0) \/ (y % 400 = 0))

DaysInMonth(y, m) ==
  IF m = 2 THEN (IF IsLeap(y) THEN 29 ELSE 28)
  ELSE IF m \in {4, 6, 9, 11} THEN 30 ELSE 31

\* days in the year before the first day of month m
DaysBeforeMonth(y, m) ==
  LET cum == <<0, 31, 59, 90, 120, 151, 181, 212, 243, 273, 304, 334>>
  IN  cum[m] + (IF m > 2 /\ IsLeap(y) THEN 1 ELSE 0)

\* days before January 1st of year y
DaysBeforeYear(y) ==
  LET p == y - 1 IN p * 365 + (p \div 4) - (p \div 100) + (p \div 400)

\* datetime(year, month, day)
Date(y, m, d) == [year |-> y, month |-> m, day |-> d]

ValidDate(dt) ==
  /\ dt.month \in 1..12
  /\ dt.day \in 1..DaysInMonth(dt.year, dt.month)

\* datetime.toordinal(): January 1st of year 1 is day 1
ToOrdinal(dt) ==
  DaysBeforeYear(dt.year) + DaysBeforeMonth(dt.year, dt.month) + dt.day

\* datetime.fromordinal(n)
FromOrdinal(ord) ==
  LET n0   == ord - 1
      n400 == n0 \div 146097
      r400 == n0 % 146097
      n100 == r400 \div 36524
      r100 == r400 % 36524
      n4   == r100 \div 1461
      r4   == r100 % 1461
      n1   == r4 \div 365
      n    == r4 % 365
      year == n400 * 400 + 1 + n100 * 100 + n4 * 4 + n1
  IN  IF n1 = 4 \/ n100 = 4
      THEN Date(year - 1, 12, 31)
      ELSE LET est   == (n + 50) \div 32
               prec  == DaysBeforeMonth(year, est)
               month == IF prec > n THEN est - 1 ELSE est
           IN  Date(year, month, n - DaysBeforeMonth(year, month) + 1)

\* datetime.weekday(): 0 = Monday .. 6 = Sunday
Weekday(dt) == (ToOrdinal(dt) + 6) % 7

\* dt + timedelta(days=k)
AddDays(dt, k) == FromOrdinal(ToOrdinal(dt) + k)

\* dt1 < dt2 on datetimes at midnight
DateLT(a, b) == ToOrdinal(a) < ToOrdinal(b)

(***************************************************************************)
(* Results of a handler: a returned value or a raised ValueError.          *)
(***************************************************************************)
NoDate == Date(0, 0, 0)

Return(v) == [ok |-> TRUE, err |-> "", val |-> v]

Raise(msg) == [ok |-> FALSE, err |-> msg, val |-> NoDate]

\* An instant is a calendar day (its proleptic Gregorian ordinal) and the
\* seconds since that day's midnight, both in the configured time zone.
Stamp(day, sec) == [day |-> day, sec |-> sec]

\* no instant: a key absent from a JSON file, a field absent from an event
NoStamp == Stamp(0, 0)

\* the audit state file without any key ({} when the file does not exist)
NoAudit == [last_weekly_audit |-> NoStamp, last_monthly_review |-> NoStamp]

\* the commands that are given all they read as arguments neither read the
\* clock nor touch the audit state file or the task CSV file
\* the session timer state file without any key ({} when the file does not
\* exist); update_count is None when absent
NoTimer ==
  [session_start |-> NoStamp, last_summary_update |-> NoStamp, update_count |-> -1]

\* no session timer state file, no concurrent invocations, no output kept
RestUnused == timer_file = NoTimer /\ procs = <<>> /\ log = <<>>

FilesUnused ==
  clock = NoStamp /\ audit_file = NoAudit /\ csv_file = <<>> /\ RestUnused

(***************************************************************************)
(* dateutil.relativedelta: calendar month and year arithmetic, as the      *)
(* scripts use it (dt + relativedelta(months=k), relativedelta(years=k)).  *)
(* The day of the month is kept when the target month has it and is        *)
(* otherwise the last day of the target month.                             *)
(***************************************************************************)
Min(a, b) == IF a <= b THEN a ELSE b

\* AddMonths as naive date arithmetic would do it: a day past the end of the
\* target month rolls over into the following month
AddMonths_rollover(dt, k) ==
  LET idx == (dt.month - 1) + k
      y   == dt.year + (idx \div 12)
      m   == (idx % 12) + 1
  IN  FromOrdinal(ToOrdinal(Date(y, m, 1)) + dt.day - 1)

\* dt + relativedelta(months=k)
AddMonths(dt, k) ==
  LET idx == (dt.month - 1) + k
      y   == dt.year + (idx \div 12)
      m   == (idx % 12) + 1
  IN  Date(y, m, Min(DaysInMonth(y, m), dt.day))

\* dt + relativedelta(years=k)
AddYears(dt, k) ==
  LET y == dt.year + k
  IN  Date(y, dt.month, Min(DaysInMonth(y, dt.month), dt.day))

(***************************************************************************)
(* WeekdayResolver (date_utils.py; task_manager.py holds the same code).   *)
(***************************************************************************)
nth_weekday_of_month(year, month, n, weekday) ==
  LET first_day        == Date(year, month, 1)
      days_until       == (weekday - Weekday(first_day)) % 7
      first_occurrence == AddDays(first_day, days_until)
      nth_occurrence   == AddDays(first_occurrence, 7 * (n - 1))
  IN  IF nth_occurrence.month # month
      THEN Raise("No nth weekday in month")
      ELSE Return(nth_occurrence)

\* next_nth_weekday_after looking in the month of after_date first
next_nth_weekday_after_same_month(after_date, n, weekday) ==
  LET this_try   == nth_weekday_of_month(after_date.year, after_date.month, n, weekday)
      next_month == AddMonths(after_date, 1)
      first_try  == nth_weekday_of_month(next_month.year, next_month.month, n, weekday)
  IN  IF this_try.ok /\ DateLT(after_date, this_try.val)
      THEN this_try
      ELSE IF first_try.ok
      THEN first_try
      ELSE LET month_after == AddMonths(next_month, 1)
           IN  nth_weekday_of_month(month_after.year, month_after.month, n, weekday)

next_nth_weekday_after(after_date, n, weekday) ==
  LET next_month == AddMonths(after_date, 1)
      first_try  == nth_weekday_of_month(next_month.year, next_month.month, n, weekday)
  IN  IF first_try.ok
      THEN first_try
      ELSE LET month_after == AddMonths(next_month, 1)
           IN  nth_weekday_of_month(month_after.year, month_after.month, n, weekday)

(***************************************************************************)
(* Text.  A Python str is a sequence of one-character strings; lower(),    *)
(* strip() and split() are computed character by character.                *)
(***************************************************************************)
UpperLetters ==
  <<"A", "B", "C", "D", "E", "F", "G", "H", "I", "J", "K", "L", "M", "N", "O", "P", "Q", "R", "S", "T", "U", "V", "W", "X", "Y", "Z">>

LowerLetters ==
  <<"a", "b", "c", "d", "e", "f", "g", "h", "i", "j", "k", "l", "m", "n", "o", "p", "q", "r", "s", "t", "u", "v", "w", "x", "y", "z">>

LowerChar(c) ==
  IF \E i \in 1..Len(UpperLetters) : UpperLetters[i] = c
  THEN LowerLetters[CHOOSE i \in 1..Len(UpperLetters) : UpperLetters[i] = c]
  ELSE c

UpperChar(c) ==
  IF \E i \in 1..Len(LowerLetters) : LowerLetters[i] = c
  THEN UpperLetters[CHOOSE i \in 1..Len(LowerLetters) : LowerLetters[i] = c]
  ELSE c

\* str.lower()
lower(s) == [i \in 1..Len(s) |-> LowerChar(s[i])]

\* the characters str.strip() and str.split() treat as whitespace
IsSpace(c) == c \in {" ", "\t", "\n", "\r"}

\* str.strip()
strip(s) ==
  LET keep == {i \in 1..Len(s) : ~IsSpace(s[i])}
  IN  IF keep = {} THEN <<>>
      ELSE SubSeq(s, CHOOSE i \in keep : \A j \in keep : i <= j,
                     CHOOSE i \in keep : \A j \in keep : j <= i)

\* str.split(): the maximal runs of non-whitespace characters, in order
RECURSIVE split(_)
split(s) ==
  IF s = <<>> THEN <<>>
  ELSE IF IsSpace(Head(s)) THEN split(Tail(s))
  ELSE LET stops == {i \in 1..Len(s) : IsSpace(s[i])}
           stop  == IF stops = {} THEN Len(s) + 1
                    ELSE CHOOSE i \in stops : \A j \in stops : i <= j
       IN  <<SubSeq(s, 1, stop - 1)>> \o split(SubSeq(s, stop, Len(s)))

\* the string literals of the scripts
Str_daily == <<"d", "a", "i", "l", "y">>
Str_weekly == <<"w", "e", "e", "k", "l", "y">>
Str_biweekly == <<"b", "i", "w", "e", "e", "k", "l", "y">>
Str_monthly == <<"m", "o", "n", "t", "h", "l", "y">>
Str_quarterly == <<"q", "u", "a", "r", "t", "e", "r", "l", "y">>
Str_yearly == <<"y", "e", "a", "r", "l", "y">>
Str_first == <<"f", "i", "r", "s", "t">>
Str_second == <<"s", "e", "c", "o", "n", "d">>
Str_third == <<"t", "h", "i", "r", "d">>
Str_fourth == <<"f", "o", "u", "r", "t", "h">>
Str_fifth == <<"f", "i", "f", "t", "h">>
Str_1st == <<"1", "s", "t">>
Str_2nd == <<"2", "n", "d">>
Str_3rd == <<"3", "r", "d">>
Str_4th == <<"4", "t", "h">>
Str_5th == <<"5", "t", "h">>
Str_monday == <<"m", "o", "n", "d", "a", "y">>
Str_tuesday == <<"t", "u", "e", "s", "d", "a", "y">>
Str_wednesday == <<"w", "e", "d", "n", "e", "s", "d", "a", "y">>
Str_thursday == <<"t", "h", "u", "r", "s", "d", "a", "y">>
Str_friday == <<"f", "r", "i", "d", "a", "y">>
Str_saturday == <<"s", "a", "t", "u", "r", "d", "a", "y">>
Str_sunday == <<"s", "u", "n", "d", "a", "y">>

\* Python's None in a pattern tuple
None == -1

(***************************************************************************)
(* RecurrencePatternParser.                                                *)
(***************************************************************************)
\* WEEKDAYS: weekday name -> 0 = Monday .. 6 = Sunday
WEEKDAYS ==
  (Str_monday :> 0) @@ (Str_tuesday :> 1) @@ (Str_wednesday :> 2) @@
  (Str_thursday :> 3) @@ (Str_friday :> 4) @@ (Str_saturday :> 5) @@
  (Str_sunday :> 6)

\* the ordinals dict of parse_recurring_pattern and parse_task_name_for_pattern
ordinals ==
  (Str_first :> 1) @@ (Str_second :> 2) @@ (Str_third :> 3) @@
  (Str_fourth :> 4) @@ (Str_fifth :> 5) @@ (Str_1st :> 1) @@ (Str_2nd :> 2) @@
  (Str_3rd :> 3) @@ (Str_4th :> 4) @@ (Str_5th :> 5)

\* a pattern tuple (pattern_type, n, weekday)
Pattern(type, n, weekday) == [type |-> type, n |-> n, weekday |-> weekday]

\* nth_weekday_of_parts reading the first two tokens of a longer text too
nth_weekday_of_parts_prefix(parts) ==
  IF Len(parts) >= 2
  THEN IF parts[1] \in DOMAIN ordinals /\ parts[2] \in DOMAIN WEEKDAYS
       THEN Pattern("nth_weekday", ordinals[parts[1]], WEEKDAYS[parts[2]])
       ELSE Pattern("unknown", None, None)
  ELSE Pattern("unknown", None, None)

\* the two-token ordinal + weekday grammar, on the tokens of a lowered text
nth_weekday_of_parts(parts) ==
  IF Len(parts) = 2
  THEN IF parts[1] \in DOMAIN ordinals /\ parts[2] \in DOMAIN WEEKDAYS
       THEN Pattern("nth_weekday", ordinals[parts[1]], WEEKDAYS[parts[2]])
       ELSE Pattern("unknown", None, None)
  ELSE Pattern("unknown", None, None)

\* parse_recurring_pattern without the strip() of the lowered text
parse_recurring_pattern_no_strip(pattern) ==
  LET pattern_lower == lower(pattern)
      nth           == nth_weekday_of_parts(split(pattern_lower))
  IN  IF pattern_lower = Str_weekly THEN Return(Pattern("weekly", None, None))
      ELSE IF pattern_lower = Str_monthly THEN Return(Pattern("monthly", None, None))
      ELSE IF pattern_lower = Str_quarterly THEN Return(Pattern("quarterly", None, None))
      ELSE IF pattern_lower = Str_yearly THEN Return(Pattern("yearly", None, None))
      ELSE IF nth.type = "nth_weekday" THEN Return(nth)
      ELSE Raise("Unknown recurring pattern")

\* parse_recurring_pattern returning an unknown pattern instead of raising
parse_recurring_pattern_unknown(pattern) ==
  LET pattern_lower == strip(lower(pattern))
      nth           == nth_weekday_of_parts(split(pattern_lower))
  IN  IF pattern_lower = Str_weekly THEN Return(Pattern("weekly", None, None))
      ELSE IF pattern_lower = Str_monthly THEN Return(Pattern("monthly", None, None))
      ELSE IF pattern_lower = Str_quarterly THEN Return(Pattern("quarterly", None, None))
      ELSE IF pattern_lower = Str_yearly THEN Return(Pattern("yearly", None, None))
      ELSE Return(nth)

\* date_utils.parse_recurring_pattern
parse_recurring_pattern(pattern) ==
  LET pattern_lower == strip(lower(pattern))
      nth           == nth_weekday_of_parts(split(pattern_lower))
  IN  IF pattern_lower = Str_weekly THEN Return(Pattern("weekly", None, None))
      ELSE IF pattern_lower = Str_monthly THEN Return(Pattern("monthly", None, None))
      ELSE IF pattern_lower = Str_quarterly THEN Return(Pattern("quarterly", None, None))
      ELSE IF pattern_lower = Str_yearly THEN Return(Pattern("yearly", None, None))
      ELSE IF nth.type = "nth_weekday" THEN Return(nth)
      ELSE Raise("Unknown recurring pattern")

\* re_search_group taking the rightmost such "(" instead of the leftmost
re_search_group_last(text) ==
  LET closes(i) == {j \in (i + 1)..Len(text) : text[j] = ")"}
      first_close(i) == CHOOSE j \in closes(i) : \A k \in closes(i) : j <= k
      opens == {i \in 1..Len(text) :
                  /\ text[i] = "("
                  /\ closes(i) # {}
                  /\ first_close(i) >= i + 2}
  IN  IF opens = {} THEN [found |-> FALSE, group |-> <<>>]
      ELSE LET i == CHOOSE a \in opens : \A b \in opens : a >= b
           IN  [found |-> TRUE, group |-> SubSeq(text, i + 1, first_close(i) - 1)]

\* re.search(r'\(([^)]+)\)', text): the leftmost "(" that is followed by at
\* least one character other than ")" and then by ")"; group(1) is the text
\* between them
re_search_group(text) ==
  LET closes(i) == {j \in (i + 1)..Len(text) : text[j] = ")"}
      first_close(i) == CHOOSE j \in closes(i) : \A k \in closes(i) : j <= k
      opens == {i \in 1..Len(text) :
                  /\ text[i] = "("
                  /\ closes(i) # {}
                  /\ first_close(i) >= i + 2}
  IN  IF opens = {} THEN [found |-> FALSE, group |-> <<>>]
      ELSE LET i == CHOOSE a \in opens : \A b \in opens : a <= b
           IN  [found |-> TRUE, group |-> SubSeq(text, i + 1, first_close(i) - 1)]

\* task_manager.parse_task_name_for_pattern
parse_task_name_for_pattern(task_name) ==
  LET match == re_search_group(lower(task_name))
  IN  IF match.found
      THEN nth_weekday_of_parts(split(strip(match.group)))
      ELSE Pattern("unknown", None, None)

(***************************************************************************)
(* DueDateScheduler.                                                       *)
(***************************************************************************)
\* the frequency texts calculate_next_due_date compares freq_lower with
CanonicalFrequencies ==
  {Str_daily, Str_weekly, Str_quarterly, Str_yearly, Str_monthly}

\* calculate_next_due_date with the yearly rule as a fixed number of days
calculate_next_due_date_365(current_due, frequency, task_name) ==
  LET freq_lower == strip(lower(frequency))
      pat        == parse_task_name_for_pattern(task_name)
  IN  IF freq_lower = Str_daily THEN Return(AddDays(current_due, 1))
      ELSE IF freq_lower = Str_weekly THEN Return(AddDays(current_due, 7))
      ELSE IF freq_lower = Str_quarterly THEN Return(AddMonths(current_due, 3))
      ELSE IF freq_lower = Str_yearly THEN Return(AddDays(current_due, 365))
      ELSE IF freq_lower = Str_monthly
           THEN IF pat.type = "nth_weekday"
                THEN next_nth_weekday_after(current_due, pat.n, pat.weekday)
                ELSE Return(AddMonths(current_due, 1))
      ELSE Raise("Unknown frequency pattern")

\* calculate_next_due_date looking at the task name before the frequency
calculate_next_due_date_name_first(current_due, frequency, task_name) ==
  LET freq_lower == strip(lower(frequency))
      pat        == parse_task_name_for_pattern(task_name)
  IN  IF pat.type = "nth_weekday" /\ freq_lower \in CanonicalFrequencies
      THEN next_nth_weekday_after(current_due, pat.n, pat.weekday)
      ELSE IF freq_lower = Str_daily THEN Return(AddDays(current_due, 1))
      ELSE IF freq_lower = Str_weekly THEN Return(AddDays(current_due, 7))
      ELSE IF freq_lower = Str_quarterly THEN Return(AddMonths(current_due, 3))
      ELSE IF freq_lower = Str_yearly THEN Return(AddYears(current_due, 1))
      ELSE IF freq_lower = Str_monthly THEN Return(AddMonths(current_due, 1))
      ELSE Raise("Unknown frequency pattern")

\* calculate_next_due_date falling back on the task name's pattern when the
\* frequency is not recognized
calculate_next_due_date_fallback(current_due, frequency, task_name) ==
  LET freq_lower == strip(lower(frequency))
      pat        == parse_task_name_for_pattern(task_name)
  IN  IF freq_lower = Str_daily THEN Return(AddDays(current_due, 1))
      ELSE IF freq_lower = Str_weekly THEN Return(AddDays(current_due, 7))
      ELSE IF freq_lower = Str_quarterly THEN Return(AddMonths(current_due, 3))
      ELSE IF freq_lower = Str_yearly THEN Return(AddYears(current_due, 1))
      ELSE IF freq_lower = Str_monthly \/ pat.type = "nth_weekday"
           THEN IF pat.type = "nth_weekday"
                THEN next_nth_weekday_after(current_due, pat.n, pat.weekday)
                ELSE Return(AddMonths(current_due, 1))
      ELSE Raise("Unknown frequency pattern")

\* task_manager.calculate_next_due_date
\* calculate_next_due_date taking an embedded pattern's occurrence in the
\* month of current_due
calculate_next_due_date_this_month(current_due, frequency, task_name) ==
  LET freq_lower == strip(lower(frequency))
      pat        == parse_task_name_for_pattern(task_name)
  IN  IF freq_lower = Str_daily THEN Return(AddDays(current_due, 1))
      ELSE IF freq_lower = Str_weekly THEN Return(AddDays(current_due, 7))
      ELSE IF freq_lower = Str_quarterly THEN Return(AddMonths(current_due, 3))
      ELSE IF freq_lower = Str_yearly THEN Return(AddYears(current_due, 1))
      ELSE IF freq_lower = Str_monthly
           THEN IF pat.type = "nth_weekday"
                THEN nth_weekday_of_month(current_due.year, current_due.month,
                                          pat.n, pat.weekday)
                ELSE Return(AddMonths(current_due, 1))
      ELSE Raise("Unknown frequency pattern")

calculate_next_due_date(current_due, frequency, task_name) ==
  LET freq_lower == strip(lower(frequency))
      pat        == parse_task_name_for_pattern(task_name)
  IN  IF freq_lower = Str_daily THEN Return(AddDays(current_due, 1))
      ELSE IF freq_lower = Str_weekly THEN Return(AddDays(current_due, 7))
      ELSE IF freq_lower = Str_quarterly THEN Return(AddMonths(current_due, 3))
      ELSE IF freq_lower = Str_yearly THEN Return(AddYears(current_due, 1))
      ELSE IF freq_lower = Str_monthly
           THEN IF pat.type = "nth_weekday"
                THEN next_nth_weekday_after(current_due, pat.n, pat.weekday)
                ELSE Return(AddMonths(current_due, 1))
      ELSE Raise("Unknown frequency pattern")

\* date_utils.next_recurring
next_recurring(current_due, pattern) ==
  LET parsed == parse_recurring_pattern(pattern)
      pat    == parsed.val
  IN  IF ~parsed.ok THEN parsed
      ELSE IF pat.type = "weekly" THEN Return(AddDays(current_due, 7))
      ELSE IF pat.type = "monthly" THEN Return(AddMonths(current_due, 1))
      ELSE IF pat.type = "quarterly" THEN Return(AddMonths(current_due, 3))
      ELSE IF pat.type = "yearly" THEN Return(AddYears(current_due, 1))
      ELSE IF pat.type = "nth_weekday"
           THEN next_nth_weekday_after(current_due, pat.n, pat.weekday)
      ELSE Raise("Unhandled pattern type")

(***************************************************************************)
(* The date commands: nth-weekday and next-nth.                            *)
(***************************************************************************)
Dates == {dt \in [year : Years, month : 1..12, day : 1..31] : ValidDate(dt)}

NotRun == Raise("not run")

InitDate ==
  /\ done = FALSE
  /\ res = NotRun
  /\ FilesUnused
  /\ \/ /\ cmd = "nth-weekday"
        /\ arg \in [year : Years, month : 1..12, n : 1..MaxN, weekday : 0..6]
     \/ /\ cmd = "next-nth"
        /\ arg \in [after_date : Dates, n : 1..5, weekday : 0..6]

cmd_nth_weekday ==
  /\ cmd = "nth-weekday"
  /\ ~done
  /\ res' = nth_weekday_of_month(arg.year, arg.month, arg.n, arg.weekday)
  /\ done' = TRUE
  /\ UNCHANGED <<cmd, arg, clock, audit_file, csv_file, rest>>

cmd_next_nth ==
  /\ cmd = "next-nth"
  /\ ~done
  /\ res' = next_nth_weekday_after(arg.after_date, arg.n, arg.weekday)
  /\ done' = TRUE
  /\ UNCHANGED <<cmd, arg, clock, audit_file, csv_file, rest>>

NextDate == cmd_nth_weekday \/ cmd_next_nth

SpecDate == InitDate /\ [][NextDate]_vars

(***************************************************************************)
(* Input texts.  A text is built from tokens, a letter-case style, a       *)
(* separator put between the tokens and a padding put around the whole.    *)
(***************************************************************************)
\* largest number of tokens in a text handed to the parser
MaxTokens == 3

\* tokens that are neither canonical, nor an ordinal, nor a weekday name
Str_sixth == <<"s", "i", "x", "t", "h">>
Str_6th == <<"6", "t", "h">>
Str_sat == <<"s", "a", "t">>
Str_mon == <<"m", "o", "n">>
Str_every == <<"e", "v", "e", "r", "y">>
Str_fortnightly == <<"f", "o", "r", "t", "n", "i", "g", "h", "t", "l", "y">>
Str_one_time == <<"o", "n", "e", "-", "t", "i", "m", "e">>

CanonicalTokens ==
  {Str_daily, Str_weekly, Str_biweekly, Str_monthly, Str_quarterly, Str_yearly}

Vocabulary ==
  CanonicalTokens \cup DOMAIN ordinals \cup DOMAIN WEEKDAYS \cup
  {Str_sixth, Str_6th, Str_sat, Str_mon, Str_every}

\* tokens drawn for the third and later positions
TailVocabulary == {Str_saturday, Str_every}

Styles == {"lower", "upper", "title"}

Styled(word, style) ==
  [i \in 1..Len(word) |->
     IF style = "upper" \/ (style = "title" /\ i = 1)
     THEN UpperChar(word[i]) ELSE word[i]]

Separators == {<<" ">>, <<"\t", " ">>}

Paddings == {<<>>, <<" ">>, <<"\n">>}

RECURSIVE Join(_, _)
Join(words, sep) ==
  IF words = <<>> THEN <<>>
  ELSE IF Len(words) = 1 THEN words[1]
  ELSE words[1] \o sep \o Join(Tail(words), sep)

TokenLists ==
  LET heads == {<<>>} \cup {<<a>> : a \in Vocabulary}
      pairs == {<<a, b>> : a \in Vocabulary, b \in Vocabulary}
      tails == UNION {[1..k -> TailVocabulary] : k \in 0..(MaxTokens - 2)}
  IN  heads \cup {h \o t : h \in pairs, t \in tails}

MakeText(toks, style, sep, pad) ==
  pad \o Join([i \in 1..Len(toks) |-> Styled(toks[i], style)], sep) \o pad

\* a text together with the pieces it was built from
TextInputs ==
  {[toks |-> toks, text |-> MakeText(toks, style, sep, pad)] :
     toks \in TokenLists, style \in Styles, sep \in Separators, pad \in Paddings}

\* a display name with one parenthesized group holding the text
NameWithGroup(text) == <<"T", "a", "s", "k", " ", "(">> \o text \o <<")">>

\* display names with several parenthesized groups: at most MaxGroups
\* groups, each holding a text built from one of these token lists (the
\* empty one gives "()" or "(  )")
MaxGroups == 3

GroupTokenLists ==
  {<<>>, <<Str_first, Str_monday>>, <<Str_2nd, Str_saturday>>, <<Str_weekly>>,
   <<Str_third, Str_sat>>}

GroupTexts ==
  {[toks |-> t, text |-> MakeText(t, "title", <<" ">>, pad)] :
     t \in GroupTokenLists, pad \in {<<>>, <<" ">>}}

RECURSIVE NameWithGroups(_)
NameWithGroups(groups) ==
  IF groups = <<>> THEN <<"T", "a", "s", "k">>
  ELSE NameWithGroups(SubSeq(groups, 1, Len(groups) - 1))
         \o <<" ", "(">> \o groups[Len(groups)].text \o <<")">>

GroupInputs ==
  {[groups |-> g, text |-> NameWithGroups(g)] :
     g \in UNION {[1..k -> GroupTexts] : k \in 0..MaxGroups}}

\* display names of tasks
Name_pay_rent ==
  <<"P", "a", "y", " ", "r", "e", "n", "t">>
Name_haircut ==
  <<"H", "a", "i", "r", "c", "u", "t", " ", "(", "F", "i", "r", "s", "t", " ", "S", "a", "t", "u", "r", "d", "a", "y", ")">>
Name_garden ==
  <<"G", "a", "r", "d", "e", "n", " ", "C", "l", "e", "a", "n", "u", "p", " ", "(", "S", "e", "c", "o", "n", "d", " ", "S", "a", "t", "u", "r", "d", "a", "y", ")">>
Name_backup ==
  <<"B", "a", "c", "k", "u", "p", " ", "(", " ", "5", "T", "H", " ", " ", "f", "r", "i", "d", "a", "y", " ", ")">>
Name_review ==
  <<"R", "e", "v", "i", "e", "w", " ", "(", "m", "o", "n", "t", "h", "l", "y", ")">>
Name_call ==
  <<"C", "a", "l", "l", " ", "(", "m", "o", "m", ")", " ", "(", "t", "h", "i", "r", "d", " ", "s", "u", "n", "d", "a", "y", ")">>
Name_trash ==
  <<"T", "r", "a", "s", "h", " ", "(", "1", "s", "t", " ", "M", "o", "n", "d", "a", "y", ")", " ", "(", "w", "e", "e", "k", "l", "y", ")">>

TaskNames ==
  {Name_pay_rent, Name_haircut, Name_garden, Name_backup, Name_review,
   Name_call, Name_trash}

call_calculate_next_due_date ==
  /\ cmd = "next-due"
  /\ ~done
  /\ res' = calculate_next_due_date(arg.current_due, arg.frequency.text, arg.task_name)
  /\ done' = TRUE
  /\ UNCHANGED <<cmd, arg, clock, audit_file, csv_file, rest>>

(***************************************************************************)
(* The parser invocations: parse_recurring_pattern on a pattern text,      *)
(* parse_task_name_for_pattern on a display name, and the frequency        *)
(* matching of calculate_next_due_date on a one-token frequency text.      *)
(***************************************************************************)
InitParse ==
  /\ done = FALSE
  /\ res = NotRun
  /\ FilesUnused
  /\ \/ /\ cmd = "parse"
        /\ arg \in TextInputs
     \/ /\ cmd = "parse-name"
        /\ arg \in {[toks |-> t.toks, text |-> NameWithGroup(t.text)] : t \in TextInputs}
     \/ /\ cmd = "parse-groups"
        /\ arg \in GroupInputs
     \/ /\ cmd = "next-due"
        /\ arg \in [current_due : {Date(FirstYear, 1, 31)},
                    frequency : {t \in TextInputs : Len(t.toks) <= 1},
                    task_name : {Name_pay_rent, Name_haircut}]

call_parse_recurring_pattern ==
  /\ cmd = "parse"
  /\ ~done
  /\ res' = parse_recurring_pattern(arg.text)
  /\ done' = TRUE
  /\ UNCHANGED <<cmd, arg, clock, audit_file, csv_file, rest>>

call_parse_task_name_for_pattern ==
  /\ cmd \in {"parse-name", "parse-groups"}
  /\ ~done
  /\ res' = Return(parse_task_name_for_pattern(arg.text))
  /\ done' = TRUE
  /\ UNCHANGED <<cmd, arg, clock, audit_file, csv_file, rest>>

NextParse ==
  \/ call_parse_recurring_pattern
  \/ call_parse_task_name_for_pattern
  \/ call_calculate_next_due_date

SpecParse == InitParse /\ [][NextParse]_vars

(***************************************************************************)
(* The scheduler invocations: calculate_next_due_date (as cmd_complete     *)
(* calls it) and the next-recurring command of date_utils.                 *)
(***************************************************************************)
\* Frequency field texts: every canonical token and some other texts, each
\* in lower case and in title case with whitespace around it
FrequencyTokenLists ==
  {<<w>> : w \in CanonicalTokens} \cup
  {<<>>, <<Str_fortnightly>>, <<Str_one_time>>, <<Str_2nd, Str_saturday>>}

FrequencyTexts ==
  {[toks |-> t, text |-> MakeText(t, "lower", <<" ">>, <<>>)] : t \in FrequencyTokenLists}
  \cup
  {[toks |-> t, text |-> MakeText(t, "title", <<" ">>, <<"\t">>)] : t \in FrequencyTokenLists}

InitDue ==
  /\ done = FALSE
  /\ res = NotRun
  /\ FilesUnused
  /\ \/ /\ cmd = "next-due"
        /\ arg \in [current_due : Dates, frequency : FrequencyTexts, task_name : TaskNames]
     \/ /\ cmd = "next-recurring"
        /\ arg \in [current_due : Dates, pattern : FrequencyTexts]

cmd_next_recurring ==
  /\ cmd = "next-recurring"
  /\ ~done
  /\ res' = next_recurring(arg.current_due, arg.pattern.text)
  /\ done' = TRUE
  /\ UNCHANGED <<cmd, arg, clock, audit_file, csv_file, rest>>

NextDue == call_calculate_next_due_date \/ cmd_next_recurring

SpecDue == InitDue /\ [][NextDue]_vars

(***************************************************************************)
(* EventClassifier: gcal_query.classify_event.                             *)
(***************************************************************************)
\* the instant a number of seconds after (or before) t
StampPlus(t, seconds) ==
  LET total == t.sec + seconds
  IN  Stamp(t.day + (total \div 86400), total % 86400)

\* (a - b).total_seconds()
total_seconds(a, b) == (a.day - b.day) * 86400 + (a.sec - b.sec)

\* int(seconds / 60): the quotient truncated towards zero
int_minutes(seconds) ==
  IF seconds >= 0 THEN seconds \div 60 ELSE -((-seconds) \div 60)

\* datetime.date()
date_of(t) == FromOrdinal(t.day)

Classification(status, detail) == [status |-> status, detail |-> detail]

\* the all-day branch with today's events already counted as completed
classify_all_day_today_completed(event_date, today) ==
  IF ~DateLT(today, event_date) THEN Classification("completed", "")
  ELSE LET days_until == ToOrdinal(event_date) - ToOrdinal(today)
       IN  Classification("upcoming_later", "in " \o ToString(days_until) \o "d")

\* the all-day branch of classify_event
classify_all_day(event_date, today) ==
  IF DateLT(event_date, today) THEN Classification("completed", "")
  ELSE IF event_date = today THEN Classification("in_progress", "all day")
  ELSE LET days_until == ToOrdinal(event_date) - ToOrdinal(today)
       IN  Classification("upcoming_later", "in " \o ToString(days_until) \o "d")

\* the upcoming branch with the imminent threshold excluded (< 30)
classify_upcoming_below_30(minutes_until) ==
  IF minutes_until < 30
  THEN Classification("upcoming_imminent", "in " \o ToString(minutes_until) \o " min")
  ELSE IF minutes_until < 60
  THEN Classification("upcoming_later", "in " \o ToString(minutes_until) \o " min")
  ELSE LET hours == minutes_until \div 60
           mins  == minutes_until % 60
       IN  IF mins = 0
           THEN Classification("upcoming_later", "in " \o ToString(hours) \o "h")
           ELSE Classification("upcoming_later",
                  "in " \o ToString(hours) \o "h " \o ToString(mins) \o "m")

\* the upcoming branch always showing the minutes after the hours
classify_upcoming_always_minutes(minutes_until) ==
  IF minutes_until <= 30
  THEN Classification("upcoming_imminent", "in " \o ToString(minutes_until) \o " min")
  ELSE IF minutes_until < 60
  THEN Classification("upcoming_later", "in " \o ToString(minutes_until) \o " min")
  ELSE LET hours == minutes_until \div 60
           mins  == minutes_until % 60
       IN  Classification("upcoming_later",
             "in " \o ToString(hours) \o "h " \o ToString(mins) \o "m")

\* the upcoming branch of classify_event
classify_upcoming(minutes_until) ==
  IF minutes_until <= 30
  THEN Classification("upcoming_imminent", "in " \o ToString(minutes_until) \o " min")
  ELSE IF minutes_until < 60
  THEN Classification("upcoming_later", "in " \o ToString(minutes_until) \o " min")
  ELSE LET hours == minutes_until \div 60
           mins  == minutes_until % 60
       IN  IF mins = 0
           THEN Classification("upcoming_later", "in " \o ToString(hours) \o "h")
           ELSE Classification("upcoming_later",
                  "in " \o ToString(hours) \o "h " \o ToString(mins) \o "m")

\* the timed branch with an event still in progress at its end instant
classify_timed_strict_end(start_dt, end_dt, now) ==
  IF total_seconds(now, end_dt) > 0 THEN Classification("completed", "")
  ELSE IF total_seconds(now, start_dt) >= 0
  THEN LET elapsed == int_minutes(total_seconds(now, start_dt))
       IN  Classification("in_progress", "started " \o ToString(elapsed) \o " min ago")
  ELSE classify_upcoming(int_minutes(total_seconds(start_dt, now)))

\* the timed branch of classify_event
classify_timed(start_dt, end_dt, now) ==
  IF total_seconds(now, end_dt) >= 0 THEN Classification("completed", "")
  ELSE IF total_seconds(now, start_dt) >= 0
  THEN LET elapsed == int_minutes(total_seconds(now, start_dt))
       IN  Classification("in_progress", "started " \o ToString(elapsed) \o " min ago")
  ELSE classify_upcoming(int_minutes(total_seconds(start_dt, now)))

\* gcal_query.classify_event: an event with a start date is an all-day
\* event, any other event has a start and an end instant
classify_event(event, now) ==
  IF event.date # NoDate
  THEN classify_all_day(event.date, date_of(now))
  ELSE classify_timed(event.start, event.end, now)

\* Inputs: the current instant at the start, the middle and the last second
\* of a day; timed events starting up to MaxMinutes minutes before or after
\* it, on a minute or a second or 59 seconds past one; all-day events up to
\* MaxDaysAway days before or after today.
MaxMinutes == 125

MaxDaysAway == 3

NowStamps ==
  {Stamp(ToOrdinal(d), s) :
     d \in {Date(FirstYear, 2, 28), Date(FirstYear, 12, 31)},
     s \in {0, 43200, 86399}}

StartOffsets == {m * 60 + s : m \in (-MaxMinutes)..MaxMinutes, s \in {0, 1, 59}}

\* seconds from the start of an event to its end
Durations == {-60, 0, 1, 1800, 7200}

TimedEvents(now) ==
  {[date |-> NoDate, start |-> StampPlus(now, o), end |-> StampPlus(now, o + d)] :
     o \in StartOffsets, d \in Durations}

AllDayEvents(now) ==
  {[date |-> AddDays(date_of(now), k), start |-> NoStamp, end |-> NoStamp] :
     k \in (-MaxDaysAway)..MaxDaysAway}

InitClassify ==
  /\ done = FALSE
  /\ res = NotRun
  /\ FilesUnused
  /\ cmd = "classify"
  /\ \E now \in NowStamps :
       arg \in [event : TimedEvents(now) \cup AllDayEvents(now), now : {now}]

call_classify_event ==
  /\ cmd = "classify"
  /\ ~done
  /\ res' = Return(classify_event(arg.event, arg.now))
  /\ done' = TRUE
  /\ UNCHANGED <<cmd, arg, clock, audit_file, csv_file, rest>>

NextClassify == call_classify_event

SpecClassify == InitClassify /\ [][NextClassify]_vars

(***************************************************************************)
(* AuditTracker: session_timer audit-check and audit-done.  The audit      *)
(* state file holds the instants of the last weekly audit and of the last  *)
(* monthly review as written by isoformat() and read back by               *)
(* fromisoformat(), which returns the instant that was written.            *)
(***************************************************************************)
\* weekly_needed decided by the elapsed time instead of the calendar dates
weekly_needed_elapsed(audit, n) ==
  LET last_weekly == audit.last_weekly_audit
  IN  IF last_weekly # NoStamp
      THEN total_seconds(n, last_weekly) >= 7 * 86400
      ELSE TRUE

\* cmd_audit_check: days_since_weekly (None when never recorded)
days_since_weekly(audit, n) ==
  LET today       == date_of(n)
      last_weekly == audit.last_weekly_audit
  IN  IF last_weekly # NoStamp
      THEN ToOrdinal(today) - ToOrdinal(date_of(last_weekly))
      ELSE None

\* cmd_audit_check: weekly_needed
weekly_needed(audit, n) ==
  LET last_weekly == audit.last_weekly_audit
  IN  IF last_weekly # NoStamp
      THEN days_since_weekly(audit, n) >= 7
      ELSE TRUE

\* monthly_needed decided by the days elapsed since the last review
monthly_needed_elapsed(audit, n) ==
  LET today        == date_of(n)
      last_monthly == audit.last_monthly_review
      first_week   == today.day <= 7
  IN  IF last_monthly # NoStamp
      THEN first_week /\ n.day - last_monthly.day >= 28
      ELSE first_week

\* cmd_audit_check: monthly_needed; the months are compared by their number
\* 1..12 alone
monthly_needed(audit, n) ==
  LET today        == date_of(n)
      last_monthly == audit.last_monthly_review
      first_week   == today.day <= 7
  IN  IF last_monthly # NoStamp
      THEN first_week /\ date_of(last_monthly).month # today.month
      ELSE first_week

\* the result cmd_audit_check prints
audit_check(audit, n) ==
  [weekly_audit_needed     |-> weekly_needed(audit, n),
   days_since_weekly_audit |-> days_since_weekly(audit, n),
   monthly_review_needed   |-> monthly_needed(audit, n),
   is_first_week           |-> date_of(n).day <= 7,
   today                   |-> date_of(n)]

\* cmd_audit_done recording the monthly review whether asked to or not
audit_done_always_monthly(audit, n, monthly) ==
  [audit EXCEPT !.last_weekly_audit = n, !.last_monthly_review = n]

\* the audit state cmd_audit_done saves
audit_done(audit, n, monthly) ==
  IF monthly
  THEN [audit EXCEPT !.last_weekly_audit = n, !.last_monthly_review = n]
  ELSE [audit EXCEPT !.last_weekly_audit = n]

\* Inputs: the clock reads the first or the last second of a day of the
\* year after FirstYear; the weekly audit was never recorded or was
\* recorded at noon up to MaxDaysSince days ago; the monthly review was
\* never recorded or was recorded at noon up to MaxDaysSince days and up to
\* MaxYearsSince years ago.
MaxDaysSince == 8

MaxYearsSince == 1

AuditClocks ==
  {Stamp(ToOrdinal(d), s) : d \in {dt \in Dates : dt.year = FirstYear + 1},
                            s \in {0, 86399}}

WeeklyStamps(n) ==
  {NoStamp} \cup {Stamp(n.day - k, 43200) : k \in 0..MaxDaysSince}

MonthlyStamps(n) ==
  {NoStamp} \cup
  {Stamp(ToOrdinal(AddYears(AddDays(date_of(n), -k), -y)), 43200) :
     k \in 0..MaxDaysSince, y \in 0..MaxYearsSince}

InitAudit ==
  /\ done = FALSE
  /\ res = NotRun
  /\ cmd = "none"
  /\ arg = [monthly |-> FALSE]
  /\ clock \in AuditClocks
  /\ audit_file \in [last_weekly_audit : WeeklyStamps(clock),
                      last_monthly_review : MonthlyStamps(clock)]
  /\ csv_file = <<>>
  /\ RestUnused

cmd_audit_check ==
  /\ cmd' = "audit-check"
  /\ arg' = [monthly |-> FALSE]
  /\ res' = Return(audit_check(audit_file, clock))
  /\ done' = TRUE
  /\ UNCHANGED <<clock, audit_file, csv_file, rest>>

cmd_audit_done ==
  /\ cmd' = "audit-done"
  /\ \E monthly \in BOOLEAN :
       /\ arg' = [monthly |-> monthly]
       /\ audit_file' = audit_done(audit_file, clock, monthly)
       /\ res' = Return([weekly_recorded |-> TRUE, monthly_recorded |-> monthly])
  /\ done' = TRUE
  /\ UNCHANGED <<clock, csv_file, rest>>

NextAudit == cmd_audit_check \/ cmd_audit_done

SpecAudit == InitAudit /\ [][NextAudit]_vars

(***************************************************************************)
(* Task reports: task_manager status and upcoming.  A task is a row of the *)
(* CSV file as read_tasks returns it: its due_date is NoDate when the Due  *)
(* Date field is empty or is not a date.                                   *)
(***************************************************************************)
Str_done == <<"d", "o", "n", "e">>
Str_completed == <<"c", "o", "m", "p", "l", "e", "t", "e", "d">>
Str_to_do == <<"t", "o", " ", "d", "o">>

\* the filter with the status compared as written, without lower()
is_reported_as_written(task) ==
  task.due_date # NoDate /\ task.status.text # Str_done

\* the filter of cmd_status and cmd_upcoming:
\* task['due_date'] and task['status'].lower() != 'done'
is_reported(task) ==
  task.due_date # NoDate /\ lower(task.status.text) # Str_done

\* list.sort(key = due_date): a stable sort
RECURSIVE sort_by_due_date(_)
sort_by_due_date(tasks) ==
  IF tasks = <<>> THEN <<>>
  ELSE LET last   == tasks[Len(tasks)]
           front  == sort_by_due_date(SubSeq(tasks, 1, Len(tasks) - 1))
           before == SelectSeq(front, LAMBDA t : ~DateLT(last.due_date, t.due_date))
           after  == SelectSeq(front, LAMBDA t : DateLT(last.due_date, t.due_date))
       IN  before \o <<last>> \o after

\* what cmd_status reports
status_report(tasks, today) ==
  LET tomorrow == AddDays(today, 1)
  IN  [overdue      |-> SelectSeq(tasks, LAMBDA t : is_reported(t) /\ DateLT(t.due_date, today)),
       due_today    |-> SelectSeq(tasks, LAMBDA t : is_reported(t) /\ t.due_date = today),
       due_tomorrow |-> SelectSeq(tasks, LAMBDA t : is_reported(t) /\ t.due_date = tomorrow)]

\* what cmd_upcoming reports
upcoming_report(tasks, today, days) ==
  LET end_date == AddDays(today, days)
  IN  [tasks |-> sort_by_due_date(
         SelectSeq(tasks, LAMBDA t : /\ is_reported(t)
                                     /\ ~DateLT(t.due_date, today)
                                     /\ ~DateLT(end_date, t.due_date)))]

\* Inputs: a CSV file of at most MaxTasks rows; a row is due up to one day
\* before and up to MaxAhead days after today or has no due date; its
\* status is done, completed or to do in some letter case, or empty; the
\* upcoming report is asked for the next 0 .. MaxAhead - 1 days.
MaxTasks == 2

MaxAhead == 2

StatusInputs ==
  {[word |-> w, text |-> Styled(w, style)] :
     w \in {Str_done, Str_completed}, style \in Styles}
  \cup {[word |-> Str_to_do, text |-> Styled(Str_to_do, "title")],
        [word |-> <<>>, text |-> <<>>]}

ReportClocks == {Stamp(ToOrdinal(Date(FirstYear, 12, 31)), 43200)}

TaskInputs(today) ==
  [name : {Name_pay_rent},
   due_date : {NoDate} \cup {AddDays(today, k) : k \in (-1)..MaxAhead},
   status : StatusInputs]

CsvFiles(today) == UNION {[1..k -> TaskInputs(today)] : k \in 0..MaxTasks}

InitReport ==
  /\ done = FALSE
  /\ res = NotRun
  /\ audit_file = NoAudit
  /\ clock \in ReportClocks
  /\ csv_file \in CsvFiles(date_of(clock))
  /\ RestUnused
  /\ \/ /\ cmd = "status"
        /\ arg = [days |-> 0]
     \/ /\ cmd = "upcoming"
        /\ arg \in [days : 0..(MaxAhead - 1)]

cmd_status ==
  /\ cmd = "status"
  /\ ~done
  /\ res' = Return(status_report(csv_file, date_of(clock)))
  /\ done' = TRUE
  /\ UNCHANGED <<cmd, arg, clock, audit_file, csv_file, rest>>

cmd_upcoming ==
  /\ cmd = "upcoming"
  /\ ~done
  /\ res' = Return(upcoming_report(csv_file, date_of(clock), arg.days))
  /\ done' = TRUE
  /\ UNCHANGED <<cmd, arg, clock, audit_file, csv_file, rest>>

NextReport == cmd_status \/ cmd_upcoming

SpecReport == InitReport /\ [][NextReport]_vars

(***************************************************************************)
(* The audit commands over time: the audit state file does not exist at    *)
(* first, time passes between the invocations.                             *)
(***************************************************************************)
\* the run starts on December 27th of FirstYear and lasts MaxRunDays days
MaxRunDays == 45

RunStart == Stamp(ToOrdinal(Date(FirstYear, 12, 27)), 0)

InitAuditRun ==
  /\ done = FALSE
  /\ res = NotRun
  /\ cmd = "none"
  /\ arg = [monthly |-> FALSE]
  /\ clock = RunStart
  /\ audit_file = NoAudit
  /\ csv_file = <<>>
  /\ RestUnused

\* time passes: to the last second of the day or to the next midnight
Tick ==
  /\ clock.day < RunStart.day + MaxRunDays
  /\ clock' = IF clock.sec = 0 THEN Stamp(clock.day, 86399)
                                ELSE Stamp(clock.day + 1, 0)
  /\ cmd' = "none"
  /\ arg' = [monthly |-> FALSE]
  /\ res' = NotRun
  /\ done' = FALSE
  /\ UNCHANGED <<audit_file, csv_file, rest>>

NextAuditRun == Tick \/ cmd_audit_check \/ cmd_audit_done

SpecAuditRun == InitAuditRun /\ [][NextAuditRun]_vars

(***************************************************************************)
(* Task completion: task_manager complete.  A row of the CSV file holds    *)
(* the texts of its fields; read_tasks parses the Due Date field,          *)
(* write_tasks writes the due_date_str of every task back.                 *)
(***************************************************************************)
Digits == <<"0", "1", "2", "3", "4", "5", "6", "7", "8", "9">>

IsDigit(c) == \E i \in 1..10 : Digits[i] = c

DigitValue(c) == (CHOOSE i \in 1..10 : Digits[i] = c) - 1

\* format_date: strftime("%Y-%m-%d")
format_date(dt) ==
  <<Digits[((dt.year \div 1000) % 10) + 1], Digits[((dt.year \div 100) % 10) + 1],
    Digits[((dt.year \div 10) % 10) + 1], Digits[(dt.year % 10) + 1], "-",
    Digits[(dt.month \div 10) + 1], Digits[(dt.month % 10) + 1], "-",
    Digits[(dt.day \div 10) + 1], Digits[(dt.day % 10) + 1]>>

\* parse_date: strptime(date_str, "%Y-%m-%d").  The text has to match
\* (\d\d\d\d)-(1[0-2]|0[1-9]|[1-9])-(3[01]|[12]\d|0[1-9]|[1-9]| [1-9]) with
\* nothing left over and has to name a day that exists; anything else is a
\* ValueError.
parse_date(date_str) ==
  LET at(i) == IF i <= Len(date_str) THEN date_str[i] ELSE ""
      dig(i) == IsDigit(at(i))
      val(i) == DigitValue(at(i))
      year_ok == dig(1) /\ dig(2) /\ dig(3) /\ dig(4) /\ at(5) = "-"
      \* the number of characters the month takes at position 6 (0: none)
      month_len == IF at(6) = "1" /\ at(7) \in {"0", "1", "2"} THEN 2
                   ELSE IF at(6) = "0" /\ dig(7) /\ at(7) # "0" THEN 2
                   ELSE IF dig(6) /\ at(6) # "0" THEN 1
                   ELSE 0
      p == 6 + month_len + 1
      day_len == IF at(p) = "3" /\ at(p + 1) \in {"0", "1"} THEN 2
                 ELSE IF at(p) \in {"1", "2"} /\ dig(p + 1) THEN 2
                 ELSE IF at(p) = "0" /\ dig(p + 1) /\ at(p + 1) # "0" THEN 2
                 ELSE IF dig(p) /\ at(p) # "0" THEN 1
                 ELSE IF at(p) = " " /\ dig(p + 1) /\ at(p + 1) # "0" THEN 2
                 ELSE 0
      number(i, n) == IF n = 1 THEN val(i)
                      ELSE IF at(i) = " " THEN val(i + 1)
                      ELSE 10 * val(i) + val(i + 1)
  IN  IF ~year_ok \/ month_len = 0 \/ at(6 + month_len) # "-" \/ day_len = 0
      THEN Raise("time data does not match format")
      ELSE IF p + day_len - 1 # Len(date_str)
      THEN Raise("unconverted data remains")
      ELSE LET dt == Date(1000 * val(1) + 100 * val(2) + 10 * val(3) + val(4),
                          number(6, month_len), number(p, day_len))
           IN  IF dt.year >= 1 /\ dt.day <= DaysInMonth(dt.year, dt.month)
               THEN Return(dt)
               ELSE Raise("day is out of range for month")

\* read_tasks: the task dicts of the rows; due_date is None (NoDate) when
\* the Due Date field is empty or parse_date raises ValueError
read_tasks(rows) ==
  Return([i \in 1..Len(rows) |->
    [name         |-> rows[i].name,
     due_date     |-> IF rows[i].due_date_str # <<>> /\ parse_date(rows[i].due_date_str).ok
                      THEN parse_date(rows[i].due_date_str).val
                      ELSE NoDate,
     due_date_str |-> rows[i].due_date_str,
     frequency    |-> rows[i].frequency,
     status       |-> rows[i].status]])

\* write_tasks: the rows written for the task dicts
write_tasks(tasks) ==
  [i \in 1..Len(tasks) |->
    [name         |-> tasks[i].name,
     due_date_str |-> tasks[i].due_date_str,
     frequency    |-> tasks[i].frequency,
     status       |-> tasks[i].status]]

\* sub in text
Contains(sub, text) ==
  \E i \in 0..(Len(text) - Len(sub)) : SubSeq(text, i + 1, i + Len(sub)) = sub

\* find_task: the index of the first task whose name equals task_name
\* ignoring case, else of the first whose name contains it; 0 for None
find_task(tasks, task_name) ==
  LET task_name_lower == lower(task_name)
      exact   == {i \in 1..Len(tasks) : lower(tasks[i].name) = task_name_lower}
      partial == {i \in 1..Len(tasks) : Contains(task_name_lower, lower(tasks[i].name))}
      first(S) == CHOOSE i \in S : \A j \in S : i <= j
  IN  IF exact # {} THEN first(exact)
      ELSE IF partial # {} THEN first(partial)
      ELSE 0

Str_To_Do == <<"T", "o", " ", "D", "o">>
Str_Done == <<"D", "o", "n", "e">>

\* what cmd_complete returns
CompleteResult(action, task, old_due_date, old_status) ==
  [action |-> action, task |-> task.name,
   old_due_date |-> old_due_date, old_status |-> old_status,
   new_due_date |-> task.due_date_str, new_status |-> task.status]

TaskNotFound ==
  [action |-> "error", task |-> <<>>, old_due_date |-> <<>>, old_status |-> <<>>,
   new_due_date |-> <<>>, new_status |-> <<>>]

\* cmd_complete leaving the due date of a rescheduled task as it was
rescheduled_keep_date(task, next) == [task EXCEPT !.status = Str_To_Do]

\* the task cmd_complete turns a recurring task into when
\* calculate_next_due_date returned next
rescheduled(task, next) ==
  IF task.due_date # NoDate
  THEN [task EXCEPT !.due_date = next, !.due_date_str = format_date(next),
                    !.status = Str_To_Do]
  ELSE [task EXCEPT !.status = Str_To_Do]

\* cmd_complete writing the file before the next due date is computed
complete_write_first(tasks_read, rows, task_name) ==
  LET tasks == tasks_read.val
      i     == find_task(tasks, task_name)
      task  == tasks[i]
      freq_lower == strip(lower(task.frequency))
      next  == calculate_next_due_date(task.due_date, task.frequency, task.name)
      marked == [task EXCEPT !.status =
                   IF task.frequency # <<>> /\ freq_lower # Str_one_time
                   THEN Str_To_Do ELSE Str_Done]
  IN  IF ~tasks_read.ok THEN [out |-> tasks_read, rows |-> rows]
      ELSE IF i = 0 THEN [out |-> Return(TaskNotFound), rows |-> rows]
      ELSE IF task.frequency # <<>> /\ freq_lower # Str_one_time
      THEN IF task.due_date # NoDate /\ ~next.ok
           THEN [out |-> next, rows |-> write_tasks([tasks EXCEPT ![i] = marked])]
           ELSE LET new == rescheduled(task, next.val)
                IN  [out  |-> Return(CompleteResult("rescheduled", new,
                                       task.due_date_str, task.status)),
                     rows |-> write_tasks([tasks EXCEPT ![i] = new])]
      ELSE [out  |-> Return(CompleteResult("completed", marked,
                              task.due_date_str, task.status)),
            rows |-> write_tasks([tasks EXCEPT ![i] = marked])]

\* cmd_complete, from the tasks read to the rows the file holds afterwards
\* (rows: the file as it is when the command ends without writing) and the
\* output: the returned dict or the exception raised
complete(tasks_read, rows, task_name) ==
  LET tasks == tasks_read.val
      i     == find_task(tasks, task_name)
      task  == tasks[i]
      freq_lower == strip(lower(task.frequency))
      next  == calculate_next_due_date(task.due_date, task.frequency, task.name)
  IN  IF ~tasks_read.ok THEN [out |-> tasks_read, rows |-> rows]
      ELSE IF i = 0 THEN [out |-> Return(TaskNotFound), rows |-> rows]
      ELSE IF task.frequency # <<>> /\ freq_lower # Str_one_time
      THEN IF task.due_date # NoDate /\ ~next.ok
           THEN [out |-> next, rows |-> rows]
           ELSE LET new == rescheduled(task, next.val)
                IN  [out  |-> Return(CompleteResult("rescheduled", new,
                                       task.due_date_str, task.status)),
                     rows |-> write_tasks([tasks EXCEPT ![i] = new])]
      ELSE LET new == [task EXCEPT !.status = Str_Done]
           IN  [out  |-> Return(CompleteResult("completed", new,
                                  task.due_date_str, task.status)),
                rows |-> write_tasks([tasks EXCEPT ![i] = new])]

\* Inputs: a CSV file of at most MaxRows rows and a task name to complete;
\* the command is run up to MaxCompletions times with the same arguments.
MaxRows == 2

MaxCompletions == 3

Text_2026_01_31 == <<"2", "0", "2", "6", "-", "0", "1", "-", "3", "1">>
Text_2026_02_30 == <<"2", "0", "2", "6", "-", "0", "2", "-", "3", "0">>
Text_pay_rent == <<"p", "a", "y", " ", "r", "e", "n", "t">>
Text_BACKUP == <<"B", "A", "C", "K", "U", "P">>
Text_missing == <<"m", "i", "s", "s", "i", "n", "g">>

Text_2026_03_31 == <<"2", "0", "2", "6", "-", "0", "3", "-", "3", "1">>

Freq_Monthly == Styled(Str_monthly, "title")
Freq_One_Time == <<" ">> \o Styled(Str_one_time, "title")

TaskRow(name, due_date_str, frequency, status) ==
  [name |-> name, due_date_str |-> due_date_str, frequency |-> frequency,
   status |-> status]

\* rows with and without a due date, with a malformed one, of every kind
\* of frequency, with and without a pattern in the name
RowInputs ==
  {TaskRow(Name_pay_rent, Text_2026_01_31, Freq_Monthly, Str_To_Do),
   TaskRow(Name_pay_rent, <<>>, Freq_Monthly, Str_Done),
   TaskRow(Name_pay_rent, Text_2026_02_30, Freq_Monthly, Str_Done),
   TaskRow(Name_pay_rent, Text_2026_01_31, Freq_One_Time, Str_To_Do),
   TaskRow(Name_pay_rent, Text_2026_01_31, <<>>, Str_To_Do),
   TaskRow(Name_pay_rent, Text_2026_01_31, Str_fortnightly, Str_Done),
   TaskRow(Name_backup, Text_2026_01_31, Freq_Monthly, Str_Done),
   TaskRow(Name_backup, Text_2026_03_31, Freq_Monthly, Str_To_Do),
   TaskRow(Name_backup, Text_2026_02_30, <<>>, Str_To_Do),
   TaskRow(Name_backup, <<>>, Str_fortnightly, Str_Done)}

RowFiles == UNION {[1..k -> RowInputs] : k \in 0..MaxRows}

InitComplete ==
  /\ done = FALSE
  /\ res = NotRun
  /\ cmd = "complete"
  /\ arg \in [task_name : {Text_pay_rent, Text_BACKUP, Text_missing}]
  /\ clock = NoStamp
  /\ audit_file = NoAudit
  /\ csv_file \in RowFiles
  /\ RestUnused

cmd_complete ==
  /\ cmd = "complete"
  /\ Len(log) < MaxCompletions
  /\ LET run == complete(read_tasks(csv_file), csv_file, arg.task_name)
     IN  /\ res' = run.out
         /\ csv_file' = run.rows
         /\ log' = Append(log, run.out)
  /\ done' = TRUE
  /\ UNCHANGED <<cmd, arg, clock, audit_file, timer_file, procs>>

NextComplete == cmd_complete

SpecComplete == InitComplete /\ [][NextComplete]_vars

(***************************************************************************)
(* Session timer: session_timer start, update and check over time.  The    *)
(* log holds the recording commands run since the most recent start.       *)
(***************************************************************************)
THRESHOLD_MINUTES == 30

\* minutes_since, with the instant now() returns
minutes_since(t, n) == int_minutes(total_seconds(n, t))

\* the state cmd_start saves
started(state, n) ==
  [state EXCEPT !.session_start = n, !.last_summary_update = n, !.update_count = 0]

\* the state cmd_update saves
updated(state, n) ==
  [state EXCEPT !.session_start = IF @ = NoStamp THEN n ELSE @,
                !.last_summary_update = n,
                !.update_count = (IF @ = None THEN 0 ELSE @) + 1]

NoSession ==
  [error |-> "no_session", minutes_since_start |-> 0, minutes_since_update |-> 0,
   overdue |-> FALSE, update_count |-> 0, threshold_minutes |-> 0]

\* cmd_check reporting overdue only above the threshold
check_above_threshold(state, n) ==
  IF state.session_start = NoStamp
  THEN NoSession
  ELSE LET last == IF state.last_summary_update = NoStamp
                   THEN state.session_start ELSE state.last_summary_update
           since_update == minutes_since(last, n)
       IN  [error |-> "",
            minutes_since_start  |-> minutes_since(state.session_start, n),
            minutes_since_update |-> since_update,
            overdue |-> since_update > THRESHOLD_MINUTES,
            update_count |-> IF state.update_count = None THEN 0 ELSE state.update_count,
            threshold_minutes |-> THRESHOLD_MINUTES]

\* what cmd_check prints with --json
check(state, n) ==
  IF state.session_start = NoStamp
  THEN NoSession
  ELSE LET last == IF state.last_summary_update = NoStamp
                   THEN state.session_start ELSE state.last_summary_update
           since_update == minutes_since(last, n)
       IN  [error |-> "",
            minutes_since_start  |-> minutes_since(state.session_start, n),
            minutes_since_update |-> since_update,
            overdue |-> since_update >= THRESHOLD_MINUTES,
            update_count |-> IF state.update_count = None THEN 0 ELSE state.update_count,
            threshold_minutes |-> THRESHOLD_MINUTES]

\* the longest time followed, in seconds, and the most updates of a session
MaxSessionSeconds == 4500

MaxUpdates == 2

\* the time that passes between two commands, in seconds
TickSteps == {899, 900}

\* shortly before midnight
TimerStart == Stamp(ToOrdinal(Date(FirstYear, 1, 31)), 85000)

InitTimer ==
  /\ done = FALSE
  /\ res = NotRun
  /\ cmd = "none"
  /\ arg = [json |-> TRUE]
  /\ clock = TimerStart
  /\ audit_file = NoAudit
  /\ csv_file = <<>>
  /\ timer_file = NoTimer
  /\ procs = <<>>
  /\ log = <<>>

TimerTick ==
  /\ \E step \in TickSteps :
       /\ total_seconds(StampPlus(clock, step), TimerStart) <= MaxSessionSeconds
       /\ clock' = StampPlus(clock, step)
  /\ cmd' = "none"
  /\ res' = NotRun
  /\ done' = FALSE
  /\ UNCHANGED <<arg, audit_file, csv_file, timer_file, procs, log>>

cmd_start ==
  /\ cmd' = "start"
  /\ timer_file' = started(timer_file, clock)
  /\ log' = <<[cmd |-> "start", at |-> clock]>>
  /\ res' = Return(timer_file')
  /\ done' = TRUE
  /\ UNCHANGED <<arg, clock, audit_file, csv_file, procs>>

cmd_update ==
  /\ timer_file.update_count < MaxUpdates
  /\ cmd' = "update"
  /\ timer_file' = updated(timer_file, clock)
  /\ log' = Append(log, [cmd |-> "update", at |-> clock])
  /\ res' = Return(timer_file')
  /\ done' = TRUE
  /\ UNCHANGED <<arg, clock, audit_file, csv_file, procs>>

cmd_check ==
  /\ cmd' = "check"
  /\ res' = Return(check(timer_file, clock))
  /\ done' = TRUE
  /\ UNCHANGED <<arg, clock, audit_file, csv_file, timer_file, procs, log>>

NextTimer == TimerTick \/ cmd_start \/ cmd_update \/ cmd_check

SpecTimer == InitTimer /\ [][NextTimer]_vars

(***************************************************************************)
(* Two invocations at a time: two task_manager complete commands on the    *)
(* same CSV file, or two session_timer audit-done commands on the same     *)
(* audit file.  No command takes a lock: an invocation reads the whole     *)
(* file in one step and writes the whole file in a later one (each read    *)
(* and each write is one step).  procs holds, per invocation, where it is  *)
(* and what it has read; the log holds the reads and writes in the order   *)
(* they happened.                                                          *)
(***************************************************************************)
Invocations == 1..2

\* an invocation that has not read anything yet
NotLoaded == [pc |-> "start", tasks |-> <<>>, audit |-> NoAudit, n |-> NoStamp]

\* cmd_complete re-reading the file when it writes, as under a lock
written_rows_reread(tasks, rows, task_name) ==
  complete(read_tasks(rows), rows, task_name).rows

\* the rows cmd_complete leaves in the file (rows: what the file holds
\* when the command gets to write), having read tasks earlier
written_rows(tasks, rows, task_name) ==
  complete(Return(tasks), rows, task_name).rows

\* hours the wall clock may advance during the two invocations
MaxRaceTicks == 2

RaceStart == Stamp(ToOrdinal(Date(FirstYear, 3, 2)), 9 * 3600)

RaceAuditFiles ==
  {NoAudit,
   [last_weekly_audit   |-> Stamp(RaceStart.day - 7, 0),
    last_monthly_review |-> Stamp(RaceStart.day - 29, 0)]}

\* files of two rows; one invocation names the first task, the other the
\* second
RaceCsvFiles ==
  {f \in [1..2 -> RowInputs] : f[1].name = Name_pay_rent /\ f[2].name = Name_backup}

InitRace ==
  /\ done = FALSE
  /\ res = [p \in Invocations |-> NotRun]
  /\ clock = RaceStart
  /\ timer_file = NoTimer
  /\ procs = [p \in Invocations |-> NotLoaded]
  /\ log = <<>>
  /\ \/ /\ cmd = "complete"
        /\ arg = <<[task_name |-> Text_pay_rent], [task_name |-> Text_BACKUP]>>
        /\ csv_file \in RaceCsvFiles
        /\ audit_file = NoAudit
     \/ /\ cmd = "audit-done"
        /\ arg \in [Invocations -> [monthly : BOOLEAN]]
        /\ csv_file = <<>>
        /\ audit_file \in RaceAuditFiles

RaceTick ==
  /\ ~done
  /\ total_seconds(clock, RaceStart) < MaxRaceTicks * 3600
  /\ clock' = StampPlus(clock, 3600)
  /\ UNCHANGED <<cmd, arg, res, done, audit_file, csv_file, timer_file, procs, log>>

\* cmd_complete up to read_tasks
complete_read(p) ==
  /\ cmd = "complete"
  /\ procs[p].pc = "start"
  /\ procs' = [procs EXCEPT ![p].pc = "loaded",
                            ![p].tasks = read_tasks(csv_file).val]
  /\ log' = Append(log, [p |-> p, op |-> "read"])
  /\ UNCHANGED <<cmd, arg, res, done, clock, audit_file, csv_file, timer_file>>

\* cmd_complete from find_task to the end
complete_write(p) ==
  /\ cmd = "complete"
  /\ procs[p].pc = "loaded"
  /\ LET run == complete(Return(procs[p].tasks), csv_file, arg[p].task_name)
     IN  /\ res' = [res EXCEPT ![p] = run.out]
         /\ csv_file' = written_rows(procs[p].tasks, csv_file, arg[p].task_name)
         /\ log' = Append(log, [p |-> p,
                     op |-> IF run.out.ok /\ run.out.val.action # "error"
                            THEN "write" ELSE "none"])
  /\ procs' = [procs EXCEPT ![p].pc = "done"]
  /\ done' = \A q \in Invocations : procs'[q].pc = "done"
  /\ UNCHANGED <<cmd, arg, clock, audit_file, timer_file>>

\* cmd_audit_done up to n = now()
audit_done_load(p) ==
  /\ cmd = "audit-done"
  /\ procs[p].pc = "start"
  /\ procs' = [procs EXCEPT ![p].pc = "loaded", ![p].audit = audit_file,
                            ![p].n = clock]
  /\ log' = Append(log, [p |-> p, op |-> "read"])
  /\ UNCHANGED <<cmd, arg, res, done, clock, audit_file, csv_file, timer_file>>

\* cmd_audit_done from there to save_audit_state
audit_done_save(p) ==
  /\ cmd = "audit-done"
  /\ procs[p].pc = "loaded"
  /\ audit_file' = audit_done(procs[p].audit, procs[p].n, arg[p].monthly)
  /\ res' = [res EXCEPT ![p] =
               Return([weekly_recorded |-> TRUE, monthly_recorded |-> arg[p].monthly])]
  /\ log' = Append(log, [p |-> p, op |-> "write"])
  /\ procs' = [procs EXCEPT ![p].pc = "done"]
  /\ done' = \A q \in Invocations : procs'[q].pc = "done"
  /\ UNCHANGED <<cmd, arg, clock, csv_file, timer_file>>

NextRace ==
  \/ RaceTick
  \/ \E p \in Invocations : complete_read(p)
  \/ \E p \in Invocations : complete_write(p)
  \/ \E p \in Invocations : audit_done_load(p)
  \/ \E p \in Invocations : audit_done_save(p)

SpecRace == InitRace /\ [][NextRace]_vars

(***************************************************************************)
(* Claims about the WeekdayResolver, checked under SpecDate.               *)
(***************************************************************************)
\* the days of (year, month) that fall on weekday
Occurrences(year, month, weekday) ==
  {d \in 1..DaysInMonth(year, month) : Weekday(Date(year, month, d)) = weekday}

\* dt is the n-th occurrence of weekday in its own month
IsNthWeekday(dt, n, weekday) ==
  /\ ValidDate(dt)
  /\ Weekday(dt) = weekday
  /\ Cardinality({d \in Occurrences(dt.year, dt.month, weekday) : d <= dt.day}) = n

\* C1: whenever nth_weekday_of_month returns a date for n >= 1, the date is
\* the n-th occurrence of the weekday in (year, month): it has the weekday,
\* lies in the requested month of the requested year, falls on day 1..7 for
\* n = 1 and 7 days after the result for n - 1 otherwise.
C1_ReturnsNthOccurrence ==
  (done /\ cmd = "nth-weekday" /\ res.ok) =>
    /\ res.val.year = arg.year
    /\ res.val.month = arg.month
    /\ Weekday(res.val) = arg.weekday
    /\ res.val.day \in (7 * (arg.n - 1) + 1)..(7 * arg.n)
    /\ IsNthWeekday(res.val, arg.n, arg.weekday)

\* C2: nth_weekday_of_month fails exactly when the month has fewer than n
\* occurrences of the weekday, and a returned date is never in another month.
C2_FailsExactlyWhenNoOccurrence ==
  (done /\ cmd = "nth-weekday") =>
    /\ ~res.ok <=> (Cardinality(Occurrences(arg.year, arg.month, arg.weekday)) < arg.n)
    /\ res.ok => (res.val.year = arg.year /\ res.val.month = arg.month)

\* C3: a date returned by next_nth_weekday_after is the nearest date strictly
\* after after_date that is the n-th occurrence of the weekday in its month:
\* no n-th weekday lies strictly between after_date and the result.
C3_NearestNthWeekdayAfter ==
  (done /\ cmd = "next-nth" /\ res.ok) =>
    /\ DateLT(arg.after_date, res.val)
    /\ IsNthWeekday(res.val, arg.n, arg.weekday)
    /\ \A o \in (ToOrdinal(arg.after_date) + 1)..(ToOrdinal(res.val) - 1) :
         ~IsNthWeekday(FromOrdinal(o), arg.n, arg.weekday)

\* C4: next_nth_weekday_after always returns a date: one of the two months
\* after after_date's month has an n-th occurrence of the weekday.
C4_TwoAttemptsSuffice ==
  (done /\ cmd = "next-nth") => res.ok

(***************************************************************************)
(* Claims about the DueDateScheduler, checked under SpecDue.               *)
(***************************************************************************)
\* r is dt advanced by k calendar months: it lies in the k-th month after
\* dt's month and keeps dt's day of the month when that month has it, and is
\* the last day of that month otherwise
CalendarMonthsLater(dt, r, k) ==
  /\ ValidDate(r)
  /\ r.year * 12 + r.month = dt.year * 12 + dt.month + k
  /\ r.day = IF dt.day <= DaysInMonth(r.year, r.month)
             THEN dt.day ELSE DaysInMonth(r.year, r.month)

\* r is dt advanced by k days
DaysLater(dt, r, k) == ValidDate(r) /\ ToOrdinal(r) = ToOrdinal(dt) + k

\* the fixed rule the claim gives for a canonical token other than monthly
FixedRule(token, dt, r) ==
  CASE token = Str_daily     -> DaysLater(dt, r, 1)
    [] token = Str_weekly    -> DaysLater(dt, r, 7)
    [] token = Str_biweekly  -> DaysLater(dt, r, 14)
    [] token = Str_quarterly -> CalendarMonthsLater(dt, r, 3)
    [] token = Str_yearly    -> CalendarMonthsLater(dt, r, 12)
    [] OTHER                 -> FALSE

EmbeddedPattern(name) ==
  CASE name = Name_haircut -> Pattern("nth_weekday", 1, 5)
    [] name = Name_garden  -> Pattern("nth_weekday", 2, 5)
    [] name = Name_backup  -> Pattern("nth_weekday", 5, 4)

NamesWithPattern == {Name_haircut, Name_garden, Name_backup}

\* the display names no parenthesized group of which holds such a pattern
NamesWithoutPattern == {Name_pay_rent, Name_review}

C7_UnknownFrequencyFails ==
  (done /\ cmd = "next-due"
        /\ arg.frequency.toks \notin {<<w>> : w \in CanonicalTokens}) =>
    /\ ~res.ok
    /\ res.err = "Unknown frequency pattern"
    /\ res.val = NoDate

\* an empty frequency field on a task named "(First Saturday)" fails
C7_Witness ==
  /\ done /\ cmd = "next-due"
  /\ arg.frequency.toks = <<>>
  /\ arg.frequency.text # <<>>
  /\ arg.task_name = Name_haircut
  /\ ~res.ok

\* the number of calendar months a month or year frequency advances by
MonthsOf(token) ==
  CASE token = Str_monthly   -> 1
    [] token = Str_quarterly -> 3
    [] token = Str_yearly    -> 12

\* C8: advancing a due date by months or years (monthly without an embedded
\* pattern, quarterly, yearly) never fails and gives a date in the target
\* month: the original day of the month when the target month has it, the
\* last day of the target month otherwise, never a day of the month after.
C8_ClampsToMonthEnd ==
  (/\ done
   /\ \/ /\ cmd = "next-due"
         /\ arg.frequency.toks \in {<<Str_monthly>>, <<Str_quarterly>>, <<Str_yearly>>}
         /\ arg.frequency.toks = <<Str_monthly>> => arg.task_name \in NamesWithoutPattern
      \/ /\ cmd = "next-recurring"
         /\ arg.pattern.toks \in {<<Str_monthly>>, <<Str_quarterly>>, <<Str_yearly>>})
  =>
    LET token  == IF cmd = "next-due" THEN arg.frequency.toks[1] ELSE arg.pattern.toks[1]
        target == (arg.current_due.year * 12 + arg.current_due.month - 1) + MonthsOf(token)
        ty     == target \div 12
        tm     == (target % 12) + 1
    IN  /\ res.ok
        /\ res.val.year = ty /\ res.val.month = tm
        /\ res.val.day \in 1..DaysInMonth(ty, tm)
        /\ arg.current_due.day <= DaysInMonth(ty, tm) => res.val.day = arg.current_due.day
        /\ arg.current_due.day > DaysInMonth(ty, tm) => res.val.day = DaysInMonth(ty, tm)

\* "Pay rent", monthly, due 31 January 2026 is moved to 28 February 2026
C8_Witness ==
  /\ done /\ cmd = "next-due"
  /\ arg.frequency.toks = <<Str_monthly>>
  /\ arg.task_name = Name_pay_rent
  /\ arg.current_due = Date(2026, 1, 31)
  /\ res.ok /\ res.val = Date(2026, 2, 28)

(***************************************************************************)
(* Claims about the RecurrencePatternParser, checked under SpecParse.      *)
(***************************************************************************)
\* the pattern value the claim gives each canonical token
TokenPattern(token) ==
  CASE token = Str_daily     -> Pattern("daily", None, None)
    [] token = Str_weekly    -> Pattern("weekly", None, None)
    [] token = Str_biweekly  -> Pattern("biweekly", None, None)
    [] token = Str_monthly   -> Pattern("monthly", None, None)
    [] token = Str_quarterly -> Pattern("quarterly", None, None)
    [] token = Str_yearly    -> Pattern("yearly", None, None)

OrdinalNumber(token) ==
  CASE token \in {Str_first, Str_1st}  -> 1
    [] token \in {Str_second, Str_2nd} -> 2
    [] token \in {Str_third, Str_3rd}  -> 3
    [] token \in {Str_fourth, Str_4th} -> 4
    [] token \in {Str_fifth, Str_5th}  -> 5
    [] OTHER                           -> 0

\* the full English weekday names, Monday first
WeekdayNames ==
  <<Str_monday, Str_tuesday, Str_wednesday, Str_thursday, Str_friday,
    Str_saturday, Str_sunday>>

IsWeekdayName(token) == \E i \in 1..7 : WeekdayNames[i] = token

\* C10: the parser yields NthWeekday{n, weekday} exactly for texts of two
\* whitespace-separated tokens, an ordinal word (first/1st .. fifth/5th, for
\* n = 1..5) and a full English weekday name, in any letter case; a text of
\* one token, of three or more tokens, with an unknown ordinal or with an
\* abbreviated weekday never yields NthWeekday.
C10_NthWeekdayGrammar ==
  (done /\ cmd \in {"parse", "parse-name"}) =>
    LET matches == /\ Len(arg.toks) = 2
                   /\ OrdinalNumber(arg.toks[1]) \in 1..5
                   /\ IsWeekdayName(arg.toks[2])
        yields  == res.ok /\ res.val.type = "nth_weekday"
    IN  /\ yields <=> matches
        /\ yields =>
             /\ res.val.n = OrdinalNumber(arg.toks[1])
             /\ WeekdayNames[res.val.weekday + 1] = arg.toks[2]

\* "2ND\t SATURDAY" is parsed as the second Saturday
C10_Witness ==
  /\ done /\ cmd = "parse"
  /\ arg.toks = <<Str_2nd, Str_saturday>>
  /\ arg.text = Styled(Str_2nd, "upper") \o <<"\t", " ">> \o Styled(Str_saturday, "upper")
  /\ res.ok /\ res.val = Pattern("nth_weekday", 2, 5)

\* a token list matching the two-token ordinal + weekday grammar
MatchesGrammar(toks) ==
  /\ Len(toks) = 2
  /\ OrdinalNumber(toks[1]) \in 1..5
  /\ IsWeekdayName(toks[2])

GrammarPattern(toks) ==
  IF MatchesGrammar(toks)
  THEN Pattern("nth_weekday", OrdinalNumber(toks[1]),
               (CHOOSE i \in 1..7 : WeekdayNames[i] = toks[2]) - 1)
  ELSE Pattern("unknown", None, None)

StampLE(a, b) == a.day < b.day \/ (a.day = b.day /\ a.sec <= b.sec)

\* seconds from a to b
SecondsFromTo(a, b) == (b.day - a.day) * 86400 + b.sec - a.sec

\* m is the number of whole minutes in a non-negative number of seconds
WholeMinutes(m, seconds) == 60 * m <= seconds /\ seconds < 60 * (m + 1)

IsTimedRun == done /\ cmd = "classify" /\ arg.event.date = NoDate

\* C13: a timed event with start <= end gets exactly one status: completed
\* (with empty detail) iff now >= end; in_progress iff start <= now < end,
\* with detail "started {e} min ago" where e is the time since start
\* floored to whole minutes; upcoming iff now < start.
C13_TimedStatus ==
  (IsTimedRun /\ StampLE(arg.event.start, arg.event.end)) =>
    LET start  == arg.event.start
        end    == arg.event.end
        now    == arg.now
        status == res.val.status
    IN  /\ res.ok
        /\ status \in {"completed", "in_progress", "upcoming_imminent", "upcoming_later"}
        /\ status = "completed" <=> StampLE(end, now)
        /\ status = "completed" => res.val.detail = ""
        /\ status = "in_progress" <=> (StampLE(start, now) /\ ~StampLE(end, now))
        /\ status = "in_progress" =>
             \E e \in 0..(MaxMinutes + 1) :
               /\ WholeMinutes(e, SecondsFromTo(start, now))
               /\ res.val.detail = "started " \o ToString(e) \o " min ago"
        /\ status \in {"upcoming_imminent", "upcoming_later"} <=> ~StampLE(start, now)

\* an event that started 29 minutes 59 seconds ago and ends in a second is
\* in progress, "started 29 min ago"
C13_Witness ==
  /\ IsTimedRun
  /\ SecondsFromTo(arg.event.start, arg.now) = 1799
  /\ SecondsFromTo(arg.now, arg.event.end) = 1
  /\ res.val = Classification("in_progress", "started 29 min ago")

\* a timed event with start <= end that has not started yet
IsUpcomingRun ==
  /\ IsTimedRun
  /\ StampLE(arg.event.start, arg.event.end)
  /\ ~StampLE(arg.event.start, arg.now)

\* C14: for an event with now < start and m the whole minutes until start,
\* the status is upcoming_imminent iff m <= 30 and upcoming_later iff
\* m > 30 (m = 30 is imminent, m = 31 is later).
C14_ImminentThreshold ==
  IsUpcomingRun =>
    \E m \in 0..(MaxMinutes + 1) :
      /\ WholeMinutes(m, SecondsFromTo(arg.now, arg.event.start))
      /\ res.val.status = "upcoming_imminent" <=> m <= 30
      /\ res.val.status = "upcoming_later" <=> m > 30

\* an event starting in 30 minutes 59 seconds is imminent
C14_Witness ==
  /\ IsUpcomingRun
  /\ SecondsFromTo(arg.now, arg.event.start) = 1859
  /\ res.val = Classification("upcoming_imminent", "in 30 min")

\* C15: the detail of an upcoming event is "in {m} min" when m < 60; when
\* m >= 60 it is "in {h}h" if m is a multiple of 60 and "in {h}h {rem}m"
\* otherwise, with h = m div 60 and rem = m mod 60, so 60 * h + rem = m and
\* 1 <= rem <= 59 whenever rem is shown.
C15_UpcomingDetail ==
  IsUpcomingRun =>
    \E m \in 0..(MaxMinutes + 1) :
      /\ WholeMinutes(m, SecondsFromTo(arg.now, arg.event.start))
      /\ m < 60 => res.val.detail = "in " \o ToString(m) \o " min"
      /\ m >= 60 =>
           \E h \in 1..m, rem \in 0..59 :
             /\ 60 * h + rem = m
             /\ rem = 0 => res.val.detail = "in " \o ToString(h) \o "h"
             /\ rem # 0 =>
                  res.val.detail = "in " \o ToString(h) \o "h " \o ToString(rem) \o "m"

\* an event starting in exactly two hours is "in 2h"
C15_Witness ==
  /\ IsUpcomingRun
  /\ SecondsFromTo(arg.now, arg.event.start) = 7200
  /\ res.val = Classification("upcoming_later", "in 2h")

IsAllDayRun == done /\ cmd = "classify" /\ arg.event.date # NoDate

\* C16: the classification of an all-day event depends only on the event
\* date and the calendar date of now, never on the time of day: a date
\* before today is completed with empty detail, today is in_progress with
\* detail "all day", a date after today is upcoming_later with detail
\* "in {d}d", d >= 1 being the number of days until it; an all-day event is
\* never upcoming_imminent.
C16_AllDayByDate ==
  IsAllDayRun =>
    LET d == ToOrdinal(arg.event.date) - arg.now.day
    IN  /\ res.ok
        /\ res.val.status # "upcoming_imminent"
        /\ d < 0 => res.val = Classification("completed", "")
        /\ d = 0 => res.val = Classification("in_progress", "all day")
        /\ d > 0 => res.val = Classification("upcoming_later", "in " \o ToString(d) \o "d")

\* one second before midnight of December 31st, tomorrow's all-day event is
\* upcoming_later, "in 1d"
C16_Witness ==
  /\ IsAllDayRun
  /\ arg.now = Stamp(ToOrdinal(Date(FirstYear, 12, 31)), 86399)
  /\ arg.event.date = Date(FirstYear + 1, 1, 1)
  /\ res.val = Classification("upcoming_later", "in 1d")

(***************************************************************************)
(* Claims about the AuditTracker, checked under SpecAudit.                 *)
(***************************************************************************)
IsAuditCheckRun == done /\ cmd = "audit-check"

\* C17: the weekly audit is due exactly when last_weekly is absent or the
\* calendar date of now is at least 7 whole days after the calendar date of
\* last_weekly (6 days: not due, 7 days: due), whatever the times of day.
C17_WeeklyDue ==
  IsAuditCheckRun =>
    LET last == audit_file.last_weekly_audit
    IN  /\ res.ok
        /\ res.val.weekly_audit_needed <=>
             (last = NoStamp \/ clock.day - last.day >= 7)

\* recorded at noon seven days ago and checked at midnight, six and a half
\* days later, the weekly audit is due
C17_Witness ==
  /\ IsAuditCheckRun
  /\ audit_file.last_weekly_audit = Stamp(clock.day - 7, 43200)
  /\ clock.sec = 0
  /\ res.val.weekly_audit_needed

\* C18: the monthly review is due exactly when the day of month of now is
\* at most 7 and last_monthly is absent or lies in another calendar month
\* (a month of a year) than now; on day 8 or later it is never due.
C18_MonthlyDue ==
  IsAuditCheckRun =>
    LET last      == audit_file.last_monthly_review
        today     == FromOrdinal(clock.day)
        last_date == FromOrdinal(last.day)
    IN  /\ res.ok
        /\ res.val.monthly_review_needed <=>
             /\ today.day <= 7
             /\ \/ last = NoStamp
                \/ last_date.year # today.year
                \/ last_date.month # today.month

ReportedTasks ==
  IF cmd = "status"
  THEN {res.val.overdue[i] : i \in 1..Len(res.val.overdue)}
         \cup {res.val.due_today[i] : i \in 1..Len(res.val.due_today)}
         \cup {res.val.due_tomorrow[i] : i \in 1..Len(res.val.due_tomorrow)}
  ELSE {res.val.tasks[i] : i \in 1..Len(res.val.tasks)}

\* the rows of the CSV file whose due date puts them in the report
RowsInRange ==
  LET today == clock.day
      due(t) == ToOrdinal(t.due_date)
  IN  {csv_file[i] : i \in {j \in 1..Len(csv_file) :
         /\ csv_file[j].due_date # NoDate
         /\ IF cmd = "status" THEN due(csv_file[j]) <= today + 1
            ELSE due(csv_file[j]) >= today /\ due(csv_file[j]) <= today + arg.days}}

IsReportRun == done /\ cmd \in {"status", "upcoming"}

\* C20 as stated: in the status report and in the upcoming report a task
\* whose status is done or completed, in any letter case, never appears,
\* whatever its due date.
C20_DoneOrCompletedExcluded ==
  IsReportRun =>
    \A t \in ReportedTasks : t.status.word \notin {Str_done, Str_completed}

\* C20 as amended: in the status report and in the upcoming report a task
\* whose status is done, in any letter case, never appears, whatever its
\* due date; every other status, completed included, excludes nothing: the
\* report shows exactly the rows in its range of due dates whose status is
\* not done.
C20_DoneExcluded ==
  IsReportRun =>
    /\ res.ok
    /\ ReportedTasks = {t \in RowsInRange : t.status.word # Str_done}

\* the status report of a file with an overdue DONE row and an overdue
\* Completed row lists the Completed row alone as overdue
C20_Witness ==
  /\ done /\ cmd = "status"
  /\ Len(csv_file) = 2
  /\ csv_file[1].status.text = Styled(Str_done, "upper")
  /\ csv_file[2].status.text = Styled(Str_completed, "title")
  /\ csv_file[1].due_date = AddDays(date_of(clock), -1)
  /\ csv_file[2].due_date = AddDays(date_of(clock), -1)
  /\ res.val.overdue = <<csv_file[2]>>

(***************************************************************************)
(* Further claims about the WeekdayResolver, checked under SpecDate.       *)
(***************************************************************************)
\* the month k months after the month of dt, as a (year, month) pair
MonthAfter(dt, k) ==
  LET idx == dt.year * 12 + (dt.month - 1) + k
  IN  [year |-> idx \div 12, month |-> (idx % 12) + 1]

\* the month ym has an n-th occurrence of the weekday
HasNth(ym, n, weekday) ==
  Cardinality(Occurrences(ym.year, ym.month, weekday)) >= n

C28_StrictlyLater ==
  (done /\ cmd \in {"next-due", "next-recurring"} /\ res.ok) =>
    /\ ValidDate(res.val)
    /\ ToOrdinal(res.val) > ToOrdinal(arg.current_due)

\* a yearly task due on February 29th 2028 is next due on February 28th 2029
C28_Witness ==
  /\ done /\ cmd = "next-due"
  /\ arg.frequency.toks = <<Str_yearly>>
  /\ arg.current_due = Date(2028, 2, 29)
  /\ res.ok /\ res.val = Date(2029, 2, 28)

(***************************************************************************)
(* Further claims about the AuditTracker, checked under SpecAudit.         *)
(***************************************************************************)
\* C30: a monthly review whose last recording lies in an earlier month of
\* the same year or in any month of an earlier year than now is reported
\* due during days 1..7 of the current month, also when it was recorded in
\* the same-numbered month of an earlier year.
C30_EarlierMonthIsDue ==
  IsAuditCheckRun =>
    LET last      == audit_file.last_monthly_review
        today     == FromOrdinal(clock.day)
        last_date == FromOrdinal(last.day)
    IN  (/\ last # NoStamp
         /\ last_date.year * 12 + last_date.month < today.year * 12 + today.month
         /\ today.day <= 7)
          => res.val.monthly_review_needed

(***************************************************************************)
(* Claims about the AuditTracker over time, checked under SpecAuditRun.    *)
(***************************************************************************)
\* C24: after a monthly review is recorded on any day of calendar month M,
\* the check reports not due at every later moment within month M and
\* reports due on each of days 1..7 of the following month (and on no later
\* day of it) until a new review is recorded; a review recorded on the last
\* day of a month is due again on the next day.
C24_MonthlyCycle ==
  (IsAuditCheckRun /\ audit_file.last_monthly_review # NoStamp) =>
    LET today     == FromOrdinal(clock.day)
        last_date == FromOrdinal(audit_file.last_monthly_review.day)
        months    == (today.year * 12 + today.month)
                       - (last_date.year * 12 + last_date.month)
    IN  /\ months = 0 => ~res.val.monthly_review_needed
        /\ months = 1 => (res.val.monthly_review_needed <=> today.day <= 7)

\* a review recorded on December 31st is due at midnight of January 1st
C24_Witness ==
  /\ IsAuditCheckRun
  /\ audit_file.last_monthly_review.day = ToOrdinal(Date(FirstYear, 12, 31))
  /\ clock = Stamp(ToOrdinal(Date(FirstYear + 1, 1, 1)), 0)
  /\ res.val.monthly_review_needed

(***************************************************************************)
(* Claims about task completion, checked under SpecComplete.               *)
(***************************************************************************)
Malformed(row) == row.due_date_str # <<>> /\ ~parse_date(row.due_date_str).ok

\* the row complete acts on: 0 when no task matches
Target == find_task(read_tasks(csv_file).val, arg.task_name)

IsRecurring(task) ==
  task.frequency # <<>> /\ strip(lower(task.frequency)) # Str_one_time

\* C22: a malformed due date in a task record is reported as a failure: a
\* command that loaded a file holding a row with a malformed Due Date does
\* not end with a result, and the row is not loaded as a task without a due
\* date.
C22_MalformedDateReported ==
  (done /\ \E i \in 1..Len(csv_file) : Malformed(csv_file[i]))
    => /\ ~res.ok
       /\ \A i \in 1..Len(csv_file) :
            Malformed(csv_file[i]) => read_tasks(csv_file).val[i].due_date # NoDate

\* C25: a completion that succeeds on a task with a non-empty frequency
\* other than one-time sets its status to To Do and, when the task has a
\* due date, its due date to the next due date of the old one (and leaves
\* the Due Date field alone when it has none); on a task with empty or
\* one-time frequency it sets the status to Done and leaves the due date
\* alone; name and frequency of the task and every other row stay as they
\* were.
C25_CompleteTransition ==
  [][(res'.ok /\ Target # 0) =>
       LET task == read_tasks(csv_file).val[Target]
           new  == csv_file'[Target]
       IN  /\ Len(csv_file') = Len(csv_file)
           /\ \A j \in 1..Len(csv_file) : j # Target => csv_file'[j] = csv_file[j]
           /\ new.name = task.name
           /\ new.frequency = task.frequency
           /\ IF IsRecurring(task)
              THEN /\ new.status = Str_To_Do
                   /\ res'.val.action = "rescheduled"
                   /\ IF task.due_date # NoDate
                      THEN new.due_date_str =
                             format_date(calculate_next_due_date(
                               task.due_date, task.frequency, task.name).val)
                      ELSE new.due_date_str = task.due_date_str
              ELSE /\ new.status = Str_Done
                   /\ res'.val.action = "completed"
                   /\ new.due_date_str = task.due_date_str]_vars

\* a recurring task with a due date was rescheduled to a later date while
\* the other row of the file, a task of status Done, stayed as it was
C25_Witness ==
  /\ done
  /\ res.ok
  /\ res.val.action = "rescheduled"
  /\ res.val.old_due_date = Text_2026_01_31
  /\ res.val.new_due_date = format_date(Date(2026, 2, 28))
  /\ res.val.new_status = Str_To_Do
  /\ Len(csv_file) = 2
  /\ Target = 2
  /\ csv_file[2].due_date_str = res.val.new_due_date
  /\ csv_file[1].status = Str_Done

\* C27: a completion that fails while computing the next due date writes
\* nothing: the file is exactly what it was before the command.
C27_FailureWritesNothing ==
  [][(Target # 0 /\ ~res'.ok) => csv_file' = csv_file]_vars

\* the completion of a task of status Done with a 5th-Friday pattern failed
\* because neither of the next two months has a 5th Friday, and the row
\* still has its due date and status
C27_Witness ==
  /\ done
  /\ ~res.ok
  /\ Target # 0
  /\ csv_file[Target] = TaskRow(Name_backup, Text_2026_01_31, Freq_Monthly, Str_Done)

\* C29: completing a monthly task without a pattern in its name k times in
\* succession from the due date d leaves it due on d advanced by k calendar
\* months in one step.
C29_NoAccumulation ==
  \A k \in 1..Len(log) :
    (/\ Target # 0
     /\ parse_task_name_for_pattern(csv_file[Target].name).type = "unknown"
     /\ strip(lower(csv_file[Target].frequency)) = Str_monthly
     /\ log[1].ok
     /\ parse_date(log[1].val.old_due_date).ok)
      => /\ log[k].ok
         /\ log[k].val.new_due_date =
              format_date(AddMonths(parse_date(log[1].val.old_due_date).val, k))

(***************************************************************************)
(* Claims about the session timer, checked under SpecTimer.                *)
(***************************************************************************)
UpdatesSinceStart == Cardinality({i \in 1..Len(log) : log[i].cmd = "update"})

\* C26: after any sequence of start, update and check commands, check
\* reports overdue exactly when at least 30 whole minutes (1800 seconds) have
\* passed since the most recent start or update, the stored and the reported
\* update_count are the number of updates since the most recent start, and
\* check leaves the stored timer state as it is.
C26_TimerState ==
  /\ [](/\ timer_file # NoTimer => timer_file.update_count = UpdatesSinceStart
        /\ (cmd = "check" /\ done /\ log # <<>>) =>
             /\ res.val.error = ""
             /\ res.val.overdue <=>
                  SecondsFromTo(log[Len(log)].at, clock) >= 30 * 60
             /\ res.val.update_count = UpdatesSinceStart)
  /\ [][cmd' = "check" => timer_file' = timer_file]_vars

\* check reports overdue exactly 1800 seconds after the second update of a
\* session that was started before the updates
C26_Witness ==
  /\ cmd = "check"
  /\ done
  /\ res.val.overdue
  /\ res.val.update_count = 2
  /\ Len(log) = 3
  /\ log[1].cmd = "start"
  /\ log[1].at # log[3].at
  /\ SecondsFromTo(log[3].at, clock) = 1800

(***************************************************************************)
(* Claims about concurrent invocations, checked under SpecRace.            *)
(***************************************************************************)
\* both invocations read the file before either wrote it, and both wrote
Overlapped ==
  /\ Len(log) = 4
  /\ log[1].op = "read" /\ log[2].op = "read"
  /\ log[3].op = "write" /\ log[4].op = "write"

\* C21: when two completions of different tasks in one CSV file, or two
\* audit-done recordings, both read the file before either writes it, the
\* update of the one that writes first is lost: the file ends as the one
\* that writes last alone would leave the file they both read, and the task
\* completed by the first is as it was in that file.
C21_LostUpdate ==
  Overlapped =>
    LET first == log[3].p
        last  == log[4].p
        read  == procs[last].tasks
    IN  IF cmd = "complete"
        THEN /\ csv_file = written_rows(read, write_tasks(read), arg[last].task_name)
             /\ csv_file[find_task(read, arg[first].task_name)] =
                  write_tasks(read)[find_task(read, arg[first].task_name)]
        ELSE audit_file = audit_done(procs[last].audit, procs[last].n, arg[last].monthly)

\* both completions answered that they rescheduled their task, the first
\* to a later due date, and the file still has that task with the old due
\* date while the task of the second has its new one
C21_Witness ==
  /\ Overlapped
  /\ cmd = "complete"
  /\ log[3].p = 1
  /\ res[1].ok /\ res[1].val.action = "rescheduled"
  /\ res[2].ok /\ res[2].val.action = "rescheduled"
  /\ res[1].val.new_due_date # res[1].val.old_due_date
  /\ csv_file[1].due_date_str = res[1].val.old_due_date
  /\ csv_file[2].due_date_str = res[2].val.new_due_date

\* a monthly review recorded by the invocation that wrote first is missing
\* from the audit file after the plain recording that wrote last
C21_WitnessAudit ==
  /\ Overlapped
  /\ cmd = "audit-done"
  /\ arg[log[3].p].monthly
  /\ ~arg[log[4].p].monthly
  /\ audit_file.last_monthly_review # procs[log[3].p].n
  /\ audit_file.last_weekly_audit = procs[log[4].p].n

====
